---- MODULE Spec2Model ----
(***************************************************************************)
(* Model of the keypoint detector post-processing (img2superpoint.py) and  *)
(* of the matcher's assignment step and the ranking loop                   *)
(* (superpoints2rank.py).                                                  *)
(*                                                                         *)
(* Arrays are functions over 0..n-1, as the code indexes them.  The        *)
(* learned networks are opaque: their outputs (the detector's score map,   *)
(* the matcher's log-assignment matrix) are inputs drawn from small sets.  *)
(* Floating point values are integers in a fixed unit; exp is a strictly   *)
(* increasing positive map on them.                                        *)
(***************************************************************************)
EXTENDS Integers, Sequences, FiniteSets, TLC

VARIABLES
    \* SuperGlue.forward
    n0, n1, scores, match_threshold, pred, gluePc,
    \* ranking_score applied to a prediction
    rscore,
    \* simple_nms applied to a score map, and again to its own output
    height, width, smap, nms_radius, nmsOut, nmsAgain, nmsPc,
    \* SuperPoint.forward after the backbone, and top_k_keypoints on its own
    remove_border, max_keypoints, found, foundScores, keypoints, kscores, detPc,
    \* process_superpoints
    main_file, kcount, pairs, done, score_dict, full_score, saved, report,
    tmp_copy, rankPc,
    \* the construction of a SuperPoint or SuperGlue module and its forward calls
    component, config, loadable, self_config, lifecycle, raised, forwards,
    \* img2superpoint: the image loop; load_pickle in process_superpoints
    all_images_name, unreadable, output, processed, imgPc, corrupt

glueVars == <<n0, n1, scores, match_threshold, pred, gluePc, rscore>>
nmsVars == <<height, width, smap, nms_radius, nmsOut, nmsAgain, nmsPc>>
detVars == <<remove_border, max_keypoints, found, foundScores, keypoints, kscores, detPc>>
rankVars == <<main_file, kcount, pairs, done, score_dict, full_score, saved, report,
              tmp_copy, rankPc>>
cfgVars == <<component, config, loadable, self_config, lifecycle, raised, forwards>>
imgVars == <<all_images_name, unreadable, output, processed, imgPc, corrupt>>
vars == <<glueVars, nmsVars, detVars, rankVars, cfgVars, imgVars>>

None == "None"

----------------------------------------------------------------------------
(* Bounds *)

\* largest number of keypoints on one side of a pair
MaxKpts == 3
\* largest number of entries of an assignment matrix (n0 * n1)
SimMaxCells == 6
\* log-assignment scores range over 0..MaxLog
MaxLog == 2
\* largest number of cells (height * width) of a dense score map
MapMaxCells == 5
\* detector scores range over 0..MaxScore
MaxScore == 3
\* NMS radii range over 0..MaxRadius
MaxRadius == 1
\* sparse score maps of the detector run: at most DetMaxCells cells
\* (height * width), at most MaxPeaks of them non-zero, with scores in
\* 1..DetMaxScore
DetMaxCells == 9
MaxPeaks == 2
DetMaxScore == 2
\* border margins range over 0..MaxBorder
MaxBorder == 1
\* keypoint caps range over 1..MaxK
MaxK == 2
\* longest keypoint list handed to top_k_keypoints on its own
MaxList == 4
\* process_superpoints: keypoints per stored detection, and the range
\* 0..RankMaxLog of the matcher's log-scores there
RankMaxKpts == 2
RankMaxLog == 1
\* largest assignment matrix (entries) a pair of stored detections gives
RankMaxCells == 4

----------------------------------------------------------------------------
(* Helpers *)

Range(n) == 0 .. (n - 1)

RECURSIVE Pow2(_)
Pow2(k) == IF k = 0 THEN 1 ELSE 2 * Pow2(k - 1)

\* torch.exp on the modelled log-scores: positive and strictly increasing
Exp(l) == Pow2(l)

MaxOf(S) == CHOOSE m \in S : \A x \in S : x <= m

\* tensor.max(dim).indices: the first index holding the maximal value
ArgMax(f, D) == CHOOSE i \in D : /\ \A k \in D : f[k] <= f[i]
                                 /\ \A k \in D : k < i => f[k] < f[i]

RECURSIVE SumOver(_, _)
SumOver(f, D) == IF D = {} THEN 0
                 ELSE LET i == CHOOSE x \in D : TRUE
                      IN f[i] + SumOver(f, D \ {i})

----------------------------------------------------------------------------
(* SuperGlue.forward, from the assignment matrix on *)

\* scores[:, :-1, :-1].max(2): per row, value and index of the best column
Max0Values(S, a, b) == [i \in Range(a) |-> MaxOf({S[i][j] : j \in Range(b)})]
Max0Indices(S, a, b) == [i \in Range(a) |-> ArgMax([j \in Range(b) |-> S[i][j]], Range(b))]
\* scores[:, :-1, :-1].max(1): per column, index of the best row
Max1Indices(S, a, b) == [j \in Range(b) |-> ArgMax([i \in Range(a) |-> S[i][j]], Range(a))]

Mutual0(indices0, indices1) == [i \in DOMAIN indices0 |-> indices1[indices0[i]] = i]
Mutual1(indices0, indices1) == [j \in DOMAIN indices1 |-> indices0[indices1[j]] = j]

MScores0(mutual0, max0) == [i \in DOMAIN mutual0 |-> IF mutual0[i] THEN Exp(max0[i]) ELSE 0]
MScores1(mutual1, mscores0, indices1) ==
    [j \in DOMAIN mutual1 |-> IF mutual1[j] THEN mscores0[indices1[j]] ELSE 0]

Valid0(mutual0, mscores0, thr) == [i \in DOMAIN mutual0 |-> mutual0[i] /\ mscores0[i] > thr]

Valid1Ungated(mutual1, valid0, indices1) == mutual1
Valid1(mutual1, valid0, indices1) ==
    [j \in DOMAIN mutual1 |-> mutual1[j] /\ valid0[indices1[j]]]

Masked(valid, indices) == [i \in DOMAIN indices |-> IF valid[i] THEN indices[i] ELSE -1]

\* the stages forward runs before the assignment step
NetworkStages == {"normalize", "kenc", "gnn", "final_proj", "sinkhorn"}

NoKeypointsSwapped(a, b) ==
    [matches0 |-> [i \in Range(b) |-> -1],
     matches1 |-> [j \in Range(a) |-> -1],
     matching_scores0 |-> [i \in Range(b) |-> 0],
     matching_scores1 |-> [j \in Range(a) |-> 0],
     ran |-> {}]
\* the early return for an empty side
NoKeypoints(a, b) ==
    [matches0 |-> [i \in Range(a) |-> -1],
     matches1 |-> [j \in Range(b) |-> -1],
     matching_scores0 |-> [i \in Range(a) |-> 0],
     matching_scores1 |-> [j \in Range(b) |-> 0],
     ran |-> {}]

\* the assignment step on a non-empty pair
Assign(S, a, b, thr) ==
    LET max0     == Max0Values(S, a, b)
        indices0 == Max0Indices(S, a, b)
        indices1 == Max1Indices(S, a, b)
        mutual0  == Mutual0(indices0, indices1)
        mutual1  == Mutual1(indices0, indices1)
        mscores0 == MScores0(mutual0, max0)
        mscores1 == MScores1(mutual1, mscores0, indices1)
        valid0   == Valid0(mutual0, mscores0, thr)
        valid1   == Valid1(mutual1, valid0, indices1)
    IN  [matches0 |-> Masked(valid0, indices0),
         matches1 |-> Masked(valid1, indices1),
         matching_scores0 |-> mscores0,
         matching_scores1 |-> mscores1,
         ran |-> NetworkStages]

Forward(S, a, b, thr) ==
    IF a = 0 \/ b = 0 THEN NoKeypoints(a, b) ELSE Assign(S, a, b, thr)

\* ranking_score: np.sum(np.multiply(matches, match_confidence))
ranking_score(matches, match_confidence) ==
    SumOver([i \in DOMAIN matches |-> matches[i] * match_confidence[i]], DOMAIN matches)

----------------------------------------------------------------------------
(* One call of SuperGlue.forward followed by ranking_score *)

Shapes == {s \in (0 .. MaxKpts) \X (0 .. MaxKpts) : s[1] * s[2] <= SimMaxCells}
Matrices(a, b) == [Range(a) -> [Range(b) -> 0 .. MaxLog]]
Thresholds == 0 .. Exp(MaxLog)

RankIdle ==
    /\ main_file = None /\ kcount = << >> /\ pairs = << >> /\ done = 0
    /\ score_dict = << >> /\ full_score = << >> /\ saved = {}
    /\ report = [written |-> FALSE, rows |-> << >>]
    /\ tmp_copy = FALSE /\ rankPc = "idle"

DetIdle ==
    /\ remove_border = 0 /\ max_keypoints = 0 /\ found = << >> /\ foundScores = << >>
    /\ keypoints = << >> /\ kscores = << >> /\ detPc = "idle"

CfgIdle ==
    /\ component = None /\ config = << >> /\ loadable = TRUE /\ self_config = << >>
    /\ lifecycle = "idle" /\ raised = None /\ forwards = 0

ImgIdle ==
    /\ all_images_name = << >> /\ unreadable = {} /\ output = {} /\ processed = 0
    /\ imgPc = "idle" /\ corrupt = {}

NmsIdle ==
    /\ height = 0 /\ width = 0 /\ smap = None /\ nms_radius = 0
    /\ nmsOut = None /\ nmsAgain = None /\ nmsPc = "idle"

GlueInit ==
    /\ NmsIdle
    /\ DetIdle
    /\ RankIdle
    /\ CfgIdle /\ ImgIdle
    /\ \E s \in Shapes :
        /\ n0 = s[1]
        /\ n1 = s[2]
        /\ scores \in Matrices(s[1], s[2])
    /\ match_threshold \in Thresholds
    /\ pred = None
    /\ rscore = None
    /\ gluePc = "ready"

CallForward ==
    /\ gluePc = "ready"
    /\ pred' = Forward(scores, n0, n1, match_threshold)
    /\ gluePc' = "matched"
    /\ UNCHANGED <<n0, n1, scores, match_threshold, rscore, nmsVars, detVars, rankVars, cfgVars, imgVars>>

CallRankingScore ==
    /\ gluePc = "matched"
    /\ rscore' = ranking_score(pred.matches0, pred.matching_scores0)
    /\ gluePc' = "scored"
    /\ UNCHANGED <<n0, n1, scores, match_threshold, pred, nmsVars, detVars, rankVars, cfgVars, imgVars>>

GlueNext == CallForward \/ CallRankingScore

SpecMatch == GlueInit /\ [][GlueNext]_vars

----------------------------------------------------------------------------
(* Claims about SuperGlue.forward and ranking_score (SpecMatch) *)

Returned == gluePc \in {"matched", "scored"}

\* C1: match symmetry. For a pair with n0 >= 1 and n1 >= 1 keypoints and any
\* match_threshold, matches0[i] = j # -1 implies matches1[j] = i, and
\* matches1[j] = i # -1 implies matches0[i] = j.
C1_MatchSymmetry ==
    (Returned /\ n0 >= 1 /\ n1 >= 1) =>
        /\ \A i \in Range(n0) :
              pred.matches0[i] # -1 =>
                  /\ pred.matches0[i] \in Range(n1)
                  /\ pred.matches1[pred.matches0[i]] = i
        /\ \A j \in Range(n1) :
              pred.matches1[j] # -1 =>
                  /\ pred.matches1[j] \in Range(n0)
                  /\ pred.matches0[pred.matches1[j]] = j

\* a returned prediction holding a valid match next to a mutually best pair
\* that the threshold rejected
C1_Witness ==
    /\ Returned /\ n0 >= 2 /\ n1 >= 2
    /\ \E i \in Range(n0) : pred.matches0[i] # -1
    /\ \E i \in Range(n0) : pred.matches0[i] = -1 /\ pred.matching_scores0[i] > 0

\* C2: every invalid assignment has confidence 0: matches0[i] = -1 implies
\* matching_scores0[i] = 0 and matches1[j] = -1 implies matching_scores1[j] = 0,
\* also for a mutually best pair at or below match_threshold.
C2_InvalidHasZeroConfidence ==
    Returned =>
        /\ \A i \in Range(n0) : pred.matches0[i] = -1 => pred.matching_scores0[i] = 0
        /\ \A j \in Range(n1) : pred.matches1[j] = -1 => pred.matching_scores1[j] = 0

SumValid(matches, match_confidence) ==
    SumOver([i \in DOMAIN matches |->
                IF matches[i] # -1 THEN match_confidence[i] ELSE 0], DOMAIN matches)

\* C3: ranking_score(matches, match_confidence) is the sum of match_confidence[i]
\* over the valid entries (matches[i] # -1), whatever the matched index is.
C3_ScoreIsSumOfValidConfidence ==
    gluePc = "scored" => rscore = SumValid(pred.matches0, pred.matching_scores0)

\* C7: with an empty side (n0 = 0 or n1 = 0) forward returns without running
\* the encoder, the graph network or Sinkhorn; matches0 has length n0 and
\* matches1 length n1, all entries -1, and both confidence arrays have the
\* same lengths, all entries 0.
C7_EmptyFastPath ==
    (Returned /\ (n0 = 0 \/ n1 = 0)) =>
        /\ pred.ran = {}
        /\ pred.matches0 = [i \in Range(n0) |-> -1]
        /\ pred.matches1 = [j \in Range(n1) |-> -1]
        /\ pred.matching_scores0 = [i \in Range(n0) |-> 0]
        /\ pred.matching_scores1 = [j \in Range(n1) |-> 0]

\* an empty set matched against a set of two or more keypoints
C7_Witness == Returned /\ n0 = 0 /\ n1 >= 2 /\ pred.matches1 = [j \in Range(n1) |-> -1]

----------------------------------------------------------------------------
(* simple_nms *)

Abs(x) == IF x < 0 THEN -x ELSE x

\* the cells of the (2*radius+1) square window centred on (r, c) that lie in
\* the map: max_pool2d pads with -infinity, so padding never wins
Window(r, c, h, w, radius) ==
    {p \in Range(h) \X Range(w) : Abs(p[1] - r) <= radius /\ Abs(p[2] - c) <= radius}

\* max_pool2d(x, kernel_size=2*radius+1, stride=1, padding=radius)
max_pool(x, h, w, radius) ==
    [r \in Range(h) |-> [c \in Range(w) |->
        MaxOf({x[p[1]][p[2]] : p \in Window(r, c, h, w, radius)})]]

\* mask.float()
AsFloat(mask, h, w) ==
    [r \in Range(h) |-> [c \in Range(w) |-> IF mask[r][c] THEN 1 ELSE 0]]

\* supp_scores == max_pool(supp_scores) where nothing is suppressed
NewMaxima(max_mask, supp_mask, supp_scores, pooled, h, w) ==
    [r \in Range(h) |-> [c \in Range(w) |->
        max_mask[r][c] \/ (supp_scores[r][c] = pooled[r][c] /\ ~supp_mask[r][c])]]

\* one round of the suppression loop; each intermediate tensor is bound once
NmsRoundOnce(sc, max_mask, h, w, radius) ==
    CHOOSE new_mask \in
        {NewMaxima(max_mask, supp_mask, supp_scores, pooled, h, w) :
            <<supp_mask, supp_scores, pooled>> \in
                {<<sm, ss, max_pool(ss, h, w, radius)>> :
                    <<sm, ss>> \in
                        {<<sm, [r \in Range(h) |-> [c \in Range(w) |->
                                    IF sm[r][c] THEN 0 ELSE sc[r][c]]]>> :
                            sm \in {[r \in Range(h) |-> [c \in Range(w) |-> near[r][c] > 0]] :
                                near \in {max_pool(AsFloat(max_mask, h, w), h, w, radius)}}}}} : TRUE

\* scores == max_pool(scores)
LocalMaxima(sc, h, w, radius) ==
    CHOOSE mask \in
        {[r \in Range(h) |-> [c \in Range(w) |-> sc[r][c] = pooled[r][c]]] :
            pooled \in {max_pool(sc, h, w, radius)}} : TRUE

KeepInverted(mask, sc, h, w) ==
    [r \in Range(h) |-> [c \in Range(w) |-> IF mask[r][c] THEN 0 ELSE sc[r][c]]]
\* torch.where(mask, scores, zeros)
Keep(mask, sc, h, w) ==
    [r \in Range(h) |-> [c \in Range(w) |-> IF mask[r][c] THEN sc[r][c] ELSE 0]]

simple_nms(sc, h, w, radius) ==
    CHOOSE out \in
        {Keep(mask2, sc, h, w) :
            mask2 \in {NmsRoundOnce(sc, mask1, h, w, radius) :
                mask1 \in {NmsRoundOnce(sc, mask0, h, w, radius) :
                    mask0 \in {LocalMaxima(sc, h, w, radius)}}}} : TRUE

MapShapes == {s \in (1 .. MapMaxCells) \X (1 .. MapMaxCells) : s[1] * s[2] <= MapMaxCells}
ScoreMaps(h, w) == [Range(h) -> [Range(w) -> 0 .. MaxScore]]

GlueIdle ==
    /\ n0 = 0 /\ n1 = 0 /\ scores = None /\ match_threshold = 0
    /\ pred = None /\ gluePc = "idle" /\ rscore = None

NmsInit ==
    /\ GlueIdle
    /\ DetIdle
    /\ RankIdle
    /\ CfgIdle /\ ImgIdle
    /\ \E s \in MapShapes :
        /\ height = s[1]
        /\ width = s[2]
        /\ smap \in ScoreMaps(s[1], s[2])
    /\ nms_radius \in 0 .. MaxRadius
    /\ nmsOut = None
    /\ nmsAgain = None
    /\ nmsPc = "ready"

CallNms ==
    /\ nmsPc = "ready"
    /\ nmsOut' = simple_nms(smap, height, width, nms_radius)
    /\ nmsPc' = "once"
    /\ UNCHANGED <<height, width, smap, nms_radius, nmsAgain, glueVars, detVars, rankVars, cfgVars, imgVars>>

CallNmsAgain ==
    /\ nmsPc = "once"
    /\ nmsAgain' = simple_nms(nmsOut, height, width, nms_radius)
    /\ nmsPc' = "twice"
    /\ UNCHANGED <<height, width, smap, nms_radius, nmsOut, glueVars, detVars, rankVars, cfgVars, imgVars>>

NmsNext == CallNms \/ CallNmsAgain

SpecNMS == NmsInit /\ [][NmsNext]_vars

\* C8: NMS idempotence. For a score map with non-negative values and a radius
\* >= 0, simple_nms applied to its own output returns that output unchanged at
\* every position.
C8_NmsIdempotent == nmsPc = "twice" => nmsAgain = nmsOut

\* a map on which the suppression loop adds a maximum the first comparison
\* missed, and on which NMS zeroes a positive score
C8_Witness ==
    /\ nmsPc = "twice" /\ nms_radius >= 1
    /\ \E r \in Range(height), c \in Range(width) :
          /\ nmsOut[r][c] > 0
          /\ smap[r][c] # max_pool(smap, height, width, nms_radius)[r][c]
    /\ \E r \in Range(height), c \in Range(width) : smap[r][c] > 0 /\ nmsOut[r][c] = 0

----------------------------------------------------------------------------
(* Keypoint selection: remove_borders, top_k_keypoints, SuperPoint.forward *)

\* the detection threshold of forward, in the unit of the modelled scores
KeypointThreshold == 1

\* torch.nonzero(s > threshold): the (row, col) of every cell above the
\* threshold, in row-major order
RECURSIVE NonzeroFrom(_, _, _, _, _)
NonzeroFrom(k, sc, h, w, threshold) ==
    IF k >= h * w THEN << >>
    ELSE LET r == k \div w
             c == k % w
         IN  (IF sc[r][c] > threshold THEN << <<r, c>> >> ELSE << >>)
                 \o NonzeroFrom(k + 1, sc, h, w, threshold)

Nonzero(sc, h, w, threshold) == NonzeroFrom(0, sc, h, w, threshold)

\* s[tuple(k.t())]: the scores at the listed cells
Gather(sc, kpts) == [i \in DOMAIN kpts |-> sc[kpts[i][1]][kpts[i][2]]]

\* x[mask] on a list: the entries whose mask is set, in order
RECURSIVE MaskedSelect(_, _)
MaskedSelect(x, mask) ==
    IF x = << >> THEN << >>
    ELSE (IF Head(mask) THEN <<Head(x)>> ELSE << >>) \o MaskedSelect(Tail(x), Tail(mask))

BorderMaskInclusive(kpts, border, h, w) ==
    [i \in DOMAIN kpts |->
        /\ kpts[i][1] >= border /\ kpts[i][1] <= h - border
        /\ kpts[i][2] >= border /\ kpts[i][2] <= w - border]
\* mask_h & mask_w of remove_borders; column 0 of a keypoint is its row
BorderMask(kpts, border, h, w) ==
    [i \in DOMAIN kpts |->
        /\ kpts[i][1] >= border /\ kpts[i][1] < h - border
        /\ kpts[i][2] >= border /\ kpts[i][2] < w - border]

remove_borders(kpts, sc, border, h, w) ==
    <<MaskedSelect(kpts, BorderMask(kpts, border, h, w)),
      MaskedSelect(sc, BorderMask(kpts, border, h, w))>>

\* what torch.topk(scores, k) may return as indices: k distinct positions,
\* values in non-increasing order, nothing left out that beats a chosen one;
\* which of several equal scores is taken is up to the library
TopKIndices(sc, k) ==
    {ix \in [1 .. k -> DOMAIN sc] :
        /\ \A i, j \in 1 .. k : i # j => ix[i] # ix[j]
        /\ \A i \in 1 .. (k - 1) : sc[ix[i]] >= sc[ix[i + 1]]
        /\ \A d \in DOMAIN sc :
              (\A i \in 1 .. k : ix[i] # d) => \A i \in 1 .. k : sc[d] <= sc[ix[i]]}

TopKFirstK(kpts, sc, k, indices) ==
    IF k >= Len(kpts) THEN <<kpts, sc>>
    ELSE <<SubSeq(kpts, 1, k), SubSeq(sc, 1, k)>>
\* top_k_keypoints, given the indices torch.topk returned
top_k_keypoints(kpts, sc, k, indices) ==
    IF k >= Len(kpts) THEN <<kpts, sc>>
    ELSE <<[i \in 1 .. k |-> kpts[indices[i]]], [i \in 1 .. k |-> sc[indices[i]]]>>

\* torch.flip(k, [1]): (row, col) becomes (x, y)
Flip(kpts) == [i \in DOMAIN kpts |-> <<kpts[i][2], kpts[i][1]>>]

PeakSets(h, w) == {P \in SUBSET (Range(h) \X Range(w)) : Cardinality(P) <= MaxPeaks}
SparseMap(P, v, h, w) ==
    [r \in Range(h) |-> [c \in Range(w) |-> IF <<r, c>> \in P THEN v[<<r, c>>] ELSE 0]]

DetShapes == {s \in (1 .. DetMaxCells) \X (1 .. DetMaxCells) : s[1] * s[2] <= DetMaxCells}

\* forward passes the literals nms_radius = 4, remove_borders = 4 and
\* max_keypoints = 1024 at the three calls, on maps of 8h x 8w cells; the model
\* draws each of them small at its call, on small maps
DetInit ==
    /\ GlueIdle
    /\ RankIdle
    /\ CfgIdle /\ ImgIdle
    /\ \E s \in DetShapes :
        /\ height = s[1]
        /\ width = s[2]
        /\ \E P \in PeakSets(s[1], s[2]) : \E v \in [P -> 1 .. DetMaxScore] :
              smap = SparseMap(P, v, s[1], s[2])
    /\ remove_border = 0 /\ nms_radius = 0 /\ max_keypoints = 0
    /\ nmsOut = None /\ nmsAgain = None /\ nmsPc = "idle"
    /\ found = << >> /\ foundScores = << >>
    /\ keypoints = << >> /\ kscores = << >>
    /\ detPc = "scores"

\* scores = simple_nms(scores, nms_radius)
DetNms ==
    /\ detPc = "scores"
    /\ \E radius \in 0 .. MaxRadius :
          nmsOut' = simple_nms(smap, height, width, radius)
    /\ detPc' = "nms"
    /\ UNCHANGED <<height, width, smap, nms_radius, nmsAgain, nmsPc, glueVars, rankVars, cfgVars, imgVars>>
    /\ UNCHANGED <<remove_border, max_keypoints, found, foundScores, keypoints, kscores>>

\* keypoints = nonzero(s > threshold); scores = s[keypoints]
DetThreshold ==
    /\ detPc = "nms"
    /\ keypoints' = Nonzero(nmsOut, height, width, KeypointThreshold)
    /\ kscores' = Gather(nmsOut, keypoints')
    /\ detPc' = "thresholded"
    /\ UNCHANGED <<nmsVars, glueVars, rankVars, cfgVars, imgVars, remove_border, max_keypoints, found, foundScores>>

\* keypoints, scores = remove_borders(k, s, border, h*8, w*8)
DetRemoveBorders ==
    /\ detPc = "thresholded"
    /\ \E border \in 0 .. MaxBorder :
          LET kept == remove_borders(keypoints, kscores, border, height, width)
          IN  /\ remove_border' = border
              /\ keypoints' = kept[1]
              /\ kscores' = kept[2]
              /\ found' = keypoints
              /\ foundScores' = kscores
    /\ detPc' = "borders"
    /\ UNCHANGED <<nmsVars, glueVars, rankVars, cfgVars, imgVars, max_keypoints>>

\* keypoints, scores = top_k_keypoints(k, s, max_keypoints)
DetTopK ==
    /\ detPc = "borders"
    /\ \E k \in 1 .. MaxK :
        \E indices \in TopKIndices(kscores, IF k >= Len(keypoints) THEN 0 ELSE k) :
          LET top == top_k_keypoints(keypoints, kscores, k, indices)
          IN  /\ keypoints' = top[1]
              /\ kscores' = top[2]
    /\ detPc' = "topk"
    /\ UNCHANGED <<nmsVars, glueVars, rankVars, cfgVars, imgVars, remove_border, max_keypoints, found, foundScores>>

\* keypoints = torch.flip(k, [1])
DetFlip ==
    /\ detPc = "topk"
    /\ keypoints' = Flip(keypoints)
    /\ detPc' = "done"
    /\ UNCHANGED <<nmsVars, glueVars, rankVars, cfgVars, imgVars, remove_border, max_keypoints, found, foundScores, kscores>>

DetNext == DetNms \/ DetThreshold \/ DetRemoveBorders \/ DetTopK \/ DetFlip

SpecDetect == DetInit /\ [][DetNext]_vars

\* the score map's cell a listed keypoint (row, col) names
InMap(rc) == rc[1] \in Range(height) /\ rc[2] \in Range(width)

\* C9: every keypoint (x, y) of the detector's output has border <= x < width -
\* border and border <= y < height - border, x the column and y the row of the
\* score map; remove_borders filters keypoints and scores by the same mask, so
\* the two lists stay parallel and of equal length.
C9_KeypointsInsideBorder ==
    /\ detPc = "borders" =>
          /\ Len(keypoints) = Len(kscores)
          /\ \A i \in DOMAIN keypoints :
                /\ InMap(keypoints[i])
                /\ kscores[i] = nmsOut[keypoints[i][1]][keypoints[i][2]]
                /\ \E d \in DOMAIN found : found[d] = keypoints[i]
          /\ \A d \in DOMAIN found :
                (/\ remove_border <= found[d][1] /\ found[d][1] < height - remove_border
                 /\ remove_border <= found[d][2] /\ found[d][2] < width - remove_border)
                    <=> \E i \in DOMAIN keypoints : keypoints[i] = found[d]
    /\ detPc = "done" =>
          /\ Len(keypoints) = Len(kscores)
          /\ \A i \in DOMAIN keypoints :
                LET x == keypoints[i][1]
                    y == keypoints[i][2]
                IN  /\ remove_border <= x /\ x < width - remove_border
                    /\ remove_border <= y /\ y < height - remove_border
                    /\ kscores[i] = nmsOut[y][x]

\* a detection with a positive border that kept a keypoint and dropped
\* another one at the edge
C9_Witness ==
    /\ detPc = "done" /\ remove_border >= 1
    /\ Len(keypoints) >= 1 /\ Len(found) > Len(keypoints)

----------------------------------------------------------------------------
(* top_k_keypoints on an arbitrary keypoint list *)

TopKInit ==
    /\ GlueIdle
    /\ RankIdle
    /\ CfgIdle /\ ImgIdle
    /\ NmsIdle
    /\ remove_border = 0
    /\ \E n \in 0 .. MaxList :
        /\ found = [i \in 1 .. n |-> <<0, i - 1>>]
        /\ foundScores \in [1 .. n -> 0 .. MaxScore]
    /\ max_keypoints \in 1 .. MaxK
    /\ keypoints = << >> /\ kscores = << >>
    /\ detPc = "call"

CallTopK ==
    /\ detPc = "call"
    /\ \E indices \in TopKIndices(foundScores, IF max_keypoints >= Len(found)
                                               THEN 0 ELSE max_keypoints) :
          LET top == top_k_keypoints(found, foundScores, max_keypoints, indices)
          IN  /\ keypoints' = top[1]
              /\ kscores' = top[2]
    /\ detPc' = "returned"
    /\ UNCHANGED <<nmsVars, glueVars, rankVars, cfgVars, imgVars, remove_border, max_keypoints, found, foundScores>>

TopKNext == CallTopK

SpecTopK == TopKInit /\ [][TopKNext]_vars

\* the positions of the input list that a returned list was taken from
Kept == {d \in DOMAIN found : \E i \in DOMAIN keypoints : keypoints[i] = found[d]}

\* C10: top_k_keypoints(keypoints, scores, K) with K >= 1 returns at most K
\* keypoints; an input of at most K keypoints comes back unchanged; of a longer
\* input exactly K come back, each returned score is the score of the keypoint
\* returned at the same position, and no dropped keypoint scores strictly
\* higher than a kept one.
C10_TopK ==
    detPc = "returned" =>
        /\ Len(keypoints) <= max_keypoints
        /\ Len(kscores) = Len(keypoints)
        /\ Len(found) <= max_keypoints => keypoints = found /\ kscores = foundScores
        /\ Len(found) > max_keypoints =>
              /\ Len(keypoints) = max_keypoints
              /\ Cardinality(Kept) = max_keypoints
              /\ \A i \in DOMAIN keypoints :
                    \E d \in DOMAIN found :
                        keypoints[i] = found[d] /\ kscores[i] = foundScores[d]
              /\ \A d \in DOMAIN found \ Kept :
                    \A k \in Kept : foundScores[d] <= foundScores[k]

\* a list cut to K = 2 that drops a keypoint tied with a kept one and one
\* scoring lower, the kept ones not being the first two of the input
C10_Witness ==
    /\ detPc = "returned" /\ max_keypoints = 2 /\ Len(found) >= 4
    /\ \E d \in DOMAIN found \ Kept : \E k \in Kept : foundScores[d] = foundScores[k]
    /\ \E d \in DOMAIN found \ Kept : \A k \in Kept : foundScores[d] < foundScores[k]
    /\ Kept # {1, 2}

----------------------------------------------------------------------------
(* process_superpoints: the pair loop and the ranking report *)

\* match_threshold = 0.2 of the matcher built by process_superpoints, in the
\* unit of the modelled confidences (Exp(0) = 1 is at the threshold, not above)
ConfigMatchThreshold == 1

File(stem, ext) == [stem |-> stem, ext |-> ext]
\* the reference file handed to process_superpoints, and the other files of
\* the input directory
MainNames == {File("ref", "pickle"), File("ref", "txt")}
OtherNames == {File("a", "pickle"), File("b", "pickle")}

\* file_name.endswith('.pickle')
IsPickle(f) == f.ext = "pickle"
\* Path(name).stem
Stem(f) == f.stem

Perms(S) == {q \in [1 .. Cardinality(S) -> S] : \A i, j \in DOMAIN q : i # j => q[i] # q[j]}

\* pairs = [(main_file, file_name) for file_name in all_file_name if ...]
PairsOf(main, listed) == [i \in DOMAIN listed |-> <<main, listed[i]>>]

\* score_dict[key] = value: a new key goes last, a known key keeps its place
DictSet(d, key, value) ==
    IF \E i \in DOMAIN d : d[i].image = key
    THEN [i \in DOMAIN d |-> IF d[i].image = key THEN [image |-> key, score |-> value] ELSE d[i]]
    ELSE Append(d, [image |-> key, score |-> value])

\* sorted(items, reverse=True, key=score): descending, equal scores keep
\* their order
RECURSIVE InsertDesc(_, _)
InsertDesc(sorted, e) ==
    IF sorted = << >> THEN <<e>>
    ELSE IF Head(sorted).score >= e.score THEN <<Head(sorted)>> \o InsertDesc(Tail(sorted), e)
         ELSE <<e>> \o sorted

RECURSIVE SortedDesc(_)
SortedDesc(d) ==
    IF d = << >> THEN << >>
    ELSE InsertDesc(SortedDesc(SubSeq(d, 1, Len(d) - 1)), d[Len(d)])

\* round n / d (n >= 0, d > 0) to the nearest integer, halves to even
RoundHalfEven(n, d) ==
    LET q == n \div d
        r == n % d
    IN  IF 2 * r > d THEN q + 1
        ELSE IF 2 * r < d THEN q
        ELSE IF q % 2 = 0 THEN q ELSE q + 1

Digits3(k) == ToString((k \div 100) % 10) \o ToString((k \div 10) % 10) \o ToString(k % 10)

\* format(x, '.3f') of x = thousandths / 1000
Fixed3(negative, thousandths) ==
    (IF negative THEN "-" ELSE "") \o ToString(thousandths \div 1000) \o "."
        \o Digits3(thousandths % 1000)

\* f'{((v / full_score) * 100):.3f}%' on numpy floats: a zero divisor gives
\* nan or an infinity, not an exception
PercentString(v, full) ==
    IF full = 0
    THEN (IF v = 0 THEN "nan" ELSE IF v > 0 THEN "inf" ELSE "-inf") \o "%"
    ELSE Fixed3((v < 0 /\ full > 0) \/ (v >= 0 /\ full < 0),
                RoundHalfEven(Abs(v) * 100000, Abs(full))) \o "%"

\* a local variable that no assignment has reached yet, and one that holds v
Unbound == << >>
Bound(v) == <<v>>

FullScoreOfEveryPair(name0, name1, score, old) == Bound(score)
\* if name0 == name1: full_score = score_dict[stem1]
NextFullScore(name0, name1, score, old) == IF name0 = name1 THEN Bound(score) ELSE old

RankMatrices(a, b) == [Range(a) -> [Range(b) -> 0 .. RankMaxLog]]

\* the state when the pair loop starts: the reference was copied into the
\* input directory, so it is always listed; listdir's order is arbitrary
RankInit ==
    /\ GlueIdle /\ NmsIdle /\ DetIdle
    /\ CfgIdle /\ ImgIdle
    /\ main_file \in MainNames
    /\ \E others \in SUBSET OtherNames :
        /\ kcount \in [{main_file} \cup others -> 0 .. RankMaxKpts]
        /\ \A f \in others : kcount[main_file] * kcount[f] <= RankMaxCells
        /\ kcount[main_file] * kcount[main_file] <= RankMaxCells
        /\ \E listed \in Perms({f \in {main_file} \cup others : IsPickle(f)}) :
              pairs = PairsOf(main_file, listed)
    /\ done = 0
    /\ score_dict = << >>
    /\ full_score = Unbound
    /\ saved = {}
    /\ report = [written |-> FALSE, rows |-> << >>]
    /\ tmp_copy = TRUE
    /\ rankPc = "loop"

\* one iteration of the pair loop
RankPair ==
    /\ rankPc = "loop"
    /\ done < Len(pairs)
    /\ LET name0 == pairs[done + 1][1]
           name1 == pairs[done + 1][2]
       IN  \E S \in RankMatrices(kcount[name0], kcount[name1]) :
             LET out == Forward(S, kcount[name0], kcount[name1], ConfigMatchThreshold)
                 score == ranking_score(out.matches0, out.matching_scores0)
             IN  /\ score_dict' = DictSet(score_dict, Stem(name1), score)
                 /\ full_score' = NextFullScore(name0, name1, score, full_score)
                 /\ saved' = saved \cup {<<Stem(name0), Stem(name1)>>}
    /\ done' = done + 1
    /\ UNCHANGED <<main_file, kcount, pairs, report, tmp_copy, rankPc>>
    /\ UNCHANGED <<glueVars, nmsVars, detVars, cfgVars, imgVars>>

\* the percentage of the first ranked image reads full_score, which is
\* unbound when no pair had name0 == name1: UnboundLocalError
RankReportFails ==
    /\ rankPc = "loop"
    /\ done = Len(pairs)
    /\ score_dict # << >>
    /\ full_score = Unbound
    /\ rankPc' = "error"
    /\ UNCHANGED <<main_file, kcount, pairs, done, score_dict, full_score, saved, report, tmp_copy>>
    /\ UNCHANGED <<glueVars, nmsVars, detVars, cfgVars, imgVars>>

\* ranking, ranking_score.csv and the removal of the copied reference
RankReportWritten ==
    /\ rankPc = "loop"
    /\ done = Len(pairs)
    /\ score_dict = << >> \/ full_score # Unbound
    /\ LET ranked_images == SortedDesc(score_dict)
       IN  report' = [written |-> TRUE,
                      rows |-> [i \in DOMAIN ranked_images |->
                                  [image |-> ranked_images[i].image,
                                   score |-> PercentString(ranked_images[i].score,
                                                           full_score[1])]]]
    /\ tmp_copy' = FALSE
    /\ rankPc' = "done"
    /\ UNCHANGED <<main_file, kcount, pairs, done, score_dict, full_score, saved>>
    /\ UNCHANGED <<glueVars, nmsVars, detVars, cfgVars, imgVars>>

RankNext == RankPair \/ RankReportFails \/ RankReportWritten

SpecRank == RankInit /\ [][RankNext]_vars

----------------------------------------------------------------------------
(* Claims about process_superpoints (SpecRank) *)

\* the candidates of a batch: the .pickle files paired with the reference
Candidates == {Stem(pairs[i][2]) : i \in DOMAIN pairs}
RawScore(image) == (CHOOSE e \in {score_dict[i] : i \in DOMAIN score_dict} : e.image = image).score
SelfPairComputed == \E i \in 1 .. done : pairs[i][1] = pairs[i][2]

\* C4: the ranking report lists every candidate exactly once, ordered by
\* non-increasing raw score, and each entry is (score / self-score) * 100
\* rendered with exactly 3 decimal places and a '%' suffix.
C4_ReportIsRankedPercentages ==
    rankPc = "done" =>
        /\ report.written
        /\ Len(report.rows) = Cardinality(Candidates)
        /\ {report.rows[i].image : i \in DOMAIN report.rows} = Candidates
        /\ \A i, j \in DOMAIN report.rows :
              i < j => RawScore(report.rows[i].image) >= RawScore(report.rows[j].image)
        /\ \A i \in DOMAIN report.rows :
              LET v == RawScore(report.rows[i].image)
                  self == full_score[1]
              IN  /\ self # 0
                  /\ report.rows[i].score =
                        Fixed3((v < 0 /\ self > 0) \/ (v >= 0 /\ self < 0),
                               RoundHalfEven(Abs(v) * 100000, Abs(self))) \o "%"

\* C5: the score of the reference matched against itself is the maximum of all
\* scores of the batch and the normalization denominator: no candidate's raw
\* score exceeds it, the reference's own entry is ranked first and no reported
\* percentage exceeds 100.000%.
C5_SelfScoreIsMaximum ==
    (rankPc = "done" /\ SelfPairComputed) =>
        /\ \A i \in DOMAIN score_dict : score_dict[i].score <= full_score[1]
        /\ RawScore(report.rows[1].image) = RawScore(Stem(main_file))

SelfPairMissing == ~ \E i \in DOMAIN pairs : pairs[i][1] = pairs[i][2]

\* C6 as stated: if no pair of the loop had name0 == name1, the ranking step
\* ends in a fatal error and no ranking report is written.
C6_MissingSelfPairIsFatal ==
    (SelfPairMissing /\ rankPc # "loop") =>
        rankPc = "error" /\ ~report.written

\* C6 as amended: if no pair of the loop had name0 == name1 and at least one
\* pair was scored, the ranking step ends in a fatal error and no report is
\* written; if no pair at all was scored, a report without rows is written. A
\* written report never holds a percentage taken from an unbound full_score.
C6_MissingSelfPairFatalUnlessNoPairs ==
    /\ (SelfPairMissing /\ rankPc # "loop") =>
          IF pairs # << >>
          THEN rankPc = "error" /\ ~report.written /\ tmp_copy
          ELSE rankPc = "done" /\ report.written /\ report.rows = << >>
    /\ (report.written /\ report.rows # << >>) => full_score # Unbound /\ SelfPairComputed

\* the loop scored and saved two pairs, none of them the reference with
\* itself, and the ranking step failed
C6_Witness ==
    /\ rankPc = "error" /\ SelfPairMissing
    /\ Len(score_dict) = 2 /\ Cardinality(saved) = 2
    /\ ~report.written

----------------------------------------------------------------------------
(* Construction of the two modules: SuperPoint.__init__, SuperGlue.__init__ *)
(* and the forward calls made on a constructed module                       *)

\* configured integers range over -MaxConfig..MaxConfig
MaxConfig == 2
\* at most MaxCalls forward calls are followed on one module
MaxCalls == 2

\* the nms_radius literal that SuperPoint.forward hands to simple_nms
ForwardNmsRadius == 4

\* the entries of default_config that a constructor or forward could read to
\* accept or reject a configuration
SuperPointDefaultConfig == [nms_radius |-> 4, max_keypoints |-> -1]
SuperGlueDefaultConfig == [weights |-> "indoor"]

\* {**self.default_config, **config}
Merge(default_config, cfg) ==
    [k \in DOMAIN default_config \cup DOMAIN cfg |->
        IF k \in DOMAIN cfg THEN cfg[k] ELSE default_config[k]]

\* the dictionaries a caller can pass: any subset of the keys
Dicts(keys, values) == UNION {[K -> values] : K \in SUBSET keys}
SuperPointConfigs == Dicts({"nms_radius", "max_keypoints"}, -MaxConfig .. MaxConfig)
SuperGlueConfigs == Dicts({"weights"}, {"indoor", "outdoor", "urban"})

\* mk == 0 or mk < -1
MaxKeypointsRejected(mk) == mk = 0 \/ mk < -1
\* self.config['weights'] in ['indoor', 'outdoor']
WeightsAccepted(w) == w \in {"indoor", "outdoor"}
\* the assertion at the top of simple_nms
NmsRadiusAccepted(radius) == radius >= 0

\* a constructor is about to run on a configuration; torch.load of the weights
\* file succeeds or raises
ConfigInit ==
    /\ GlueIdle /\ NmsIdle /\ DetIdle
    /\ RankIdle
    /\ ImgIdle
    /\ \/ component = "SuperPoint" /\ config \in SuperPointConfigs
       \/ component = "SuperGlue" /\ config \in SuperGlueConfigs
    /\ loadable \in BOOLEAN
    /\ self_config = << >>
    /\ lifecycle = "Init"
    /\ raised = None
    /\ forwards = 0

\* SuperPoint.__init__: merge the configuration, build the layers, load the
\* weights, then check max_keypoints
ConstructSuperPoint ==
    /\ component = "SuperPoint"
    /\ lifecycle = "Init"
    /\ self_config' = Merge(SuperPointDefaultConfig, config)
    /\ IF ~loadable
         THEN lifecycle' = "Failed" /\ raised' = "LoadError"
         ELSE IF MaxKeypointsRejected(self_config'.max_keypoints)
                THEN lifecycle' = "Failed" /\ raised' = "ValueError"
                ELSE lifecycle' = "Ready" /\ raised' = None
    /\ UNCHANGED <<component, config, loadable, forwards>>
    /\ UNCHANGED <<glueVars, nmsVars, detVars, rankVars, imgVars>>

\* SuperGlue.__init__: merge the configuration, build the layers, check the
\* weights variant, then load the weights
ConstructSuperGlue ==
    /\ component = "SuperGlue"
    /\ lifecycle = "Init"
    /\ self_config' = Merge(SuperGlueDefaultConfig, config)
    /\ IF ~WeightsAccepted(self_config'.weights)
         THEN lifecycle' = "Failed" /\ raised' = "AssertionError"
         ELSE IF ~loadable
                THEN lifecycle' = "Failed" /\ raised' = "LoadError"
                ELSE lifecycle' = "Ready" /\ raised' = None
    /\ UNCHANGED <<component, config, loadable, forwards>>
    /\ UNCHANGED <<glueVars, nmsVars, detVars, rankVars, imgVars>>

\* SuperPoint.forward on a constructed detector: simple_nms is called with the
\* literal radius, whatever self.config['nms_radius'] is, and asserts on it
SuperPointForward ==
    /\ component = "SuperPoint"
    /\ lifecycle = "Ready"
    /\ forwards < MaxCalls
    /\ IF NmsRadiusAccepted(ForwardNmsRadius)
         THEN forwards' = forwards + 1 /\ raised' = None
         ELSE forwards' = forwards /\ raised' = "AssertionError"
    /\ UNCHANGED <<component, config, loadable, self_config, lifecycle>>
    /\ UNCHANGED <<glueVars, nmsVars, detVars, rankVars, imgVars>>

\* SuperGlue.forward on a constructed matcher: no configuration is validated
SuperGlueForward ==
    /\ component = "SuperGlue"
    /\ lifecycle = "Ready"
    /\ forwards < MaxCalls
    /\ forwards' = forwards + 1
    /\ UNCHANGED <<component, config, loadable, self_config, lifecycle, raised>>
    /\ UNCHANGED <<glueVars, nmsVars, detVars, rankVars, imgVars>>

ConfigNext ==
    ConstructSuperPoint \/ ConstructSuperGlue \/ SuperPointForward \/ SuperGlueForward

SpecConfig == ConfigInit /\ [][ConfigNext]_vars

----------------------------------------------------------------------------
(* Claims about construction (SpecConfig) *)

\* the configuration the module runs with, known from the call on
EffectiveConfig ==
    IF component = "SuperPoint" THEN Merge(SuperPointDefaultConfig, config)
    ELSE Merge(SuperGlueDefaultConfig, config)

NeverRan == lifecycle # "Ready" /\ forwards = 0

\* a detector with max_keypoints = 0 or < -1 is rejected by its constructor
BadMaxKeypointsNeverReady ==
    (component = "SuperPoint" /\ MaxKeypointsRejected(EffectiveConfig.max_keypoints))
        => NeverRan

\* a matcher with an unknown weights variant is rejected by its constructor
UnknownWeightsNeverReady ==
    (component = "SuperGlue" /\ ~WeightsAccepted(EffectiveConfig.weights))
        => NeverRan

\* C11: a detector configured with a negative nms_radius, or with
\* max_keypoints equal to 0 or less than -1, and a matcher configured with a
\* weights variant other than 'indoor'/'outdoor', never becomes Ready and
\* never executes forward.
C11_ConfigErrorsAtConstruction ==
    /\ (component = "SuperPoint" /\ EffectiveConfig.nms_radius < 0) => NeverRan
    /\ BadMaxKeypointsNeverReady
    /\ UnknownWeightsNeverReady

----------------------------------------------------------------------------
(* The two batch loops with a unit that raises: img2superpoint over the     *)
(* images of a directory, process_superpoints over the pairs                *)

\* the files of the image directory; two of them share a stem
ImageDirectory ==
    {File("a", "jpg"), File("a", "png"), File("b", "jpeg"), File("notes", "txt")}
\* what an earlier run left in the output directory
StaleOutput == {[stem |-> "a", image |-> File("old", "jpg")],
                [stem |-> "old", image |-> File("old", "jpg")]}

\* endswith('.jpg') or endswith('.png') or endswith('jpeg')
IsImage(f) == f.ext \in {"jpg", "png", "jpeg"}

\* open(f'{output_path}/{stem}.pickle', 'wb'): the file of a stem is replaced
WritePickle(dir, stem, image) ==
    {o \in dir : o.stem # stem} \cup {[stem |-> stem, image |-> image]}

\* img2superpoint after the detector is built and the directory is listed;
\* cv2.imread returns None for a file it cannot decode
ImgInit ==
    /\ GlueIdle /\ NmsIdle /\ DetIdle
    /\ RankIdle
    /\ CfgIdle
    /\ \E listed \in SUBSET ImageDirectory :
        /\ all_images_name \in Perms({f \in listed : IsImage(f)})
        /\ unreadable \in SUBSET {f \in listed : IsImage(f)}
    /\ output \in SUBSET StaleOutput
    /\ processed = 0
    /\ imgPc = "prepare"
    /\ corrupt = {}

\* the output directory is created, or emptied when it exists
ImgPrepareOutput ==
    /\ imgPc = "prepare"
    /\ output' = {}
    /\ imgPc' = "loop"
    /\ UNCHANGED <<all_images_name, unreadable, processed, corrupt>>
    /\ UNCHANGED <<glueVars, nmsVars, detVars, rankVars, cfgVars>>

\* one iteration on an image that decodes: detect and write {stem}.pickle
ImgProcess ==
    /\ imgPc = "loop"
    /\ processed < Len(all_images_name)
    /\ all_images_name[processed + 1] \notin unreadable
    /\ output' = WritePickle(output, Stem(all_images_name[processed + 1]),
                             all_images_name[processed + 1])
    /\ processed' = processed + 1
    /\ UNCHANGED <<all_images_name, unreadable, imgPc, corrupt>>
    /\ UNCHANGED <<glueVars, nmsVars, detVars, rankVars, cfgVars>>

\* one iteration on an image that does not decode: cv2.resize raises on None
\* and nothing in the loop catches it, so the exception leaves img2superpoint
ImgRaises ==
    /\ imgPc = "loop"
    /\ processed < Len(all_images_name)
    /\ all_images_name[processed + 1] \in unreadable
    /\ imgPc' = "error"
    /\ UNCHANGED <<all_images_name, unreadable, output, processed, corrupt>>
    /\ UNCHANGED <<glueVars, nmsVars, detVars, rankVars, cfgVars>>

\* the loop is exhausted and img2superpoint returns
ImgReturn ==
    /\ imgPc = "loop"
    /\ processed = Len(all_images_name)
    /\ imgPc' = "done"
    /\ UNCHANGED <<all_images_name, unreadable, output, processed, corrupt>>
    /\ UNCHANGED <<glueVars, nmsVars, detVars, rankVars, cfgVars>>

\* process_superpoints when the pair loop starts, with .pickle files that
\* load_pickle cannot load
PairBatchInit ==
    /\ GlueIdle /\ NmsIdle /\ DetIdle
    /\ CfgIdle
    /\ main_file \in MainNames
    /\ \E others \in SUBSET OtherNames :
        /\ kcount \in [{main_file} \cup others -> 0 .. RankMaxKpts]
        /\ \A f \in others : kcount[main_file] * kcount[f] <= RankMaxCells
        /\ kcount[main_file] * kcount[main_file] <= RankMaxCells
        /\ \E listed \in Perms({f \in {main_file} \cup others : IsPickle(f)}) :
              pairs = PairsOf(main_file, listed)
        /\ corrupt \in SUBSET ({main_file} \cup others)
    /\ done = 0
    /\ score_dict = << >>
    /\ full_score = Unbound
    /\ saved = {}
    /\ report = [written |-> FALSE, rows |-> << >>]
    /\ tmp_copy = TRUE
    /\ rankPc = "loop"
    /\ all_images_name = << >> /\ unreadable = {} /\ output = {} /\ processed = 0
    /\ imgPc = "idle"

\* both files of the next pair load
PairLoads ==
    /\ done < Len(pairs)
    /\ pairs[done + 1][1] \notin corrupt
    /\ pairs[done + 1][2] \notin corrupt

\* one iteration of the pair loop on files that load
RankPairLoaded == PairLoads /\ RankPair

\* one iteration on a file that does not load: load_pickle raises and nothing
\* in the loop catches it, so the exception leaves process_superpoints before
\* the report is written and before the copied reference is removed
RankPairRaises ==
    /\ rankPc = "loop"
    /\ done < Len(pairs)
    /\ ~PairLoads
    /\ rankPc' = "raised"
    /\ UNCHANGED <<main_file, kcount, pairs, done, score_dict, full_score, saved, report, tmp_copy>>
    /\ UNCHANGED <<glueVars, nmsVars, detVars, cfgVars, imgVars>>

BatchInit == ImgInit \/ PairBatchInit

BatchNext ==
    \/ ImgPrepareOutput \/ ImgProcess \/ ImgRaises \/ ImgReturn
    \/ RankPairLoaded \/ RankPairRaises \/ RankReportFails \/ RankReportWritten

SpecBatch == BatchInit /\ [][BatchNext]_vars

----------------------------------------------------------------------------
(* Claims about the batch loops (SpecBatch) *)

ImgEnded == imgPc \in {"done", "error"}
PairsEnded == rankPc \in {"done", "error", "raised"}

Persisted(image) == \E o \in output : o.stem = Stem(image)
Saved(pair) == <<Stem(pair[1]), Stem(pair[2])>> \in saved

\* what was written before a unit raised is still there when the run has ended
PersistedResultsKept ==
    /\ imgPc \in {"loop", "done", "error"} =>
          \A i \in 1 .. processed : Persisted(all_images_name[i])
    /\ rankPc \in {"loop", "done", "error", "raised"} =>
          \A i \in 1 .. done : Saved(pairs[i])

\* every unit that can be processed has been, once the run has ended
RemainingUnitsProcessed ==
    /\ ImgEnded =>
          \A i \in DOMAIN all_images_name :
              all_images_name[i] \notin unreadable => Persisted(all_images_name[i])
    /\ PairsEnded =>
          \A i \in DOMAIN pairs :
              (pairs[i][1] \notin corrupt /\ pairs[i][2] \notin corrupt) => Saved(pairs[i])

\* C12: a unit of work (one image, one pair) that raises aborts only that
\* unit: the remaining images/pairs of the batch are still processed, and
\* every result persisted before the failure is still present afterwards.
C12_FailureAbortsOnlyItsUnit ==
    /\ RemainingUnitsProcessed
    /\ PersistedResultsKept

====
